---- MODULE Spec2Model ----
(***************************************************************************)
(* Model of src/app.py: the FAQ compiler run at startup, the in-memory      *)
(* session store, the /session/start, /ask and /session/reset handlers and *)
(* the completion gateway.                                                 *)
(*                                                                         *)
(* The Flask development server (app.run, line 201) serves each request on *)
(* its own thread, so a handler is a sequence of steps, one per access to  *)
(* the shared store; the interpreter runs one step of one thread at a      *)
(* time.  Text is a sequence of one-character strings.  Python lists are   *)
(* objects: `lists` is the heap of list objects, `sessions` maps a session *)
(* identifier to the address of its list, and a handler's local `history`  *)
(* is such an address.                                                     *)
(***************************************************************************)
EXTENDS Integers, Sequences, FiniteSets, TLC

\* ------------------------------------------------------------ constants
MAX_MESSAGES == 15

\* ------------------------------------------------------------ bounds
\* sessions the store may hold
MaxSessions == 2
\* events of one run that depart from requests served one at a time by a
\* provider that answers: gateway calls that fail, and requests that start
\* while another request is being handled
MaxIrregular == 1
\* physical lines of a FAQ document, the header line included
MaxLines == 4

\* The threads that handle requests.  The server starts one per request and
\* their identities are immaterial: a request takes the first free one.
Threads == {1, 2}

VARIABLES
    sessions,   \* dict: session identifier -> address of its list object
    lists,      \* heap: address -> list of messages
    uuids,      \* identifiers uuid4 has generated so far
    known,      \* identifiers a client has been told in a response
    th,         \* per thread: position in the handler and its locals
    before,     \* per thread: the history its request found (history variable)
    irregular,  \* failed gateway calls and overlapping requests so far
    cleared,    \* list objects a /session/reset has emptied and no /ask that
                \* got the list has answered since (history variable)
    faq         \* parse_faq_tsv at startup: its position, argument and locals

vars == <<sessions, lists, uuids, known, th, before, irregular, cleared, faq>>

\* ------------------------------------------------------------ text
\* the ASCII characters str.strip() removes that the model's texts can hold
Whitespace == {" ", "\t", "\n", "\r", "\f"}

RECURSIVE lstrip(_)
lstrip(s) == IF s # <<>> /\ Head(s) \in Whitespace THEN lstrip(Tail(s)) ELSE s

RECURSIVE rstrip(_)
rstrip(s) ==
    IF s # <<>> /\ s[Len(s)] \in Whitespace
    THEN rstrip(SubSeq(s, 1, Len(s) - 1))
    ELSE s

\* str.strip()
strip(s) == rstrip(lstrip(s))

\* ------------------------------------------------------------ requests
\* An optional value: a header or a JSON field that may be absent.
Absent(empty) == [present |-> FALSE, value |-> empty]
Present(v) == [present |-> TRUE, value |-> v]

\* X-Session-Id as a client can send it: absent, empty, a string that is no
\* identifier of the store, or an identifier some response has told it.
Headers ==
    {Absent(""), Present(""), Present("bogus")} \cup {Present(k) : k \in known}

\* The "message" field of the JSON body of /ask.
Bodies ==
    { Absent(<<>>), Present(<<>>), Present(<<" ">>),
      Present(<<"h", "i">>), Present(<<" ", "h", "i", "\n">>) }

\* ------------------------------------------------------------ FAQ compiler
TAB == "\t"
QUOTE == "\""

\* str.strip(chars), one side at a time
RECURSIVE lstrip_chars(_, _)
lstrip_chars(s, chars) ==
    IF s # <<>> /\ Head(s) \in chars THEN lstrip_chars(Tail(s), chars) ELSE s

RECURSIVE rstrip_chars(_, _)
rstrip_chars(s, chars) ==
    IF s # <<>> /\ s[Len(s)] \in chars
    THEN rstrip_chars(SubSeq(s, 1, Len(s) - 1), chars)
    ELSE s

strip_chars(s, chars) == rstrip_chars(lstrip_chars(s, chars), chars)

\* The line boundaries of str.splitlines() the model's texts can hold; "\r\n"
\* is one boundary.
LineBreaks == {"\n", "\r", "\f"}

\* str.splitlines(): cur is the line being read, acc the lines read.
RECURSIVE splitlines_from(_, _, _)
splitlines_from(s, cur, acc) ==
    IF s = <<>>
    THEN IF cur = <<>> THEN acc ELSE Append(acc, cur)
    ELSE IF Head(s) = "\r" /\ Len(s) >= 2 /\ s[2] = "\n"
    THEN splitlines_from(Tail(Tail(s)), <<>>, Append(acc, cur))
    ELSE IF Head(s) \in LineBreaks
    THEN splitlines_from(Tail(s), <<>>, Append(acc, cur))
    ELSE splitlines_from(Tail(s), Append(cur, Head(s)), acc)

splitlines(s) == splitlines_from(s, <<>>, <<>>)

\* str.count(c) for a character c
count(s, c) == Cardinality({i \in DOMAIN s : s[i] = c})

\* str.split(sep, maxsplit) for a character sep
RECURSIVE split(_, _, _)
split(s, sep, maxsplit) ==
    IF maxsplit = 0 \/ count(s, sep) = 0
    THEN <<s>>
    ELSE LET i == CHOOSE j \in DOMAIN s :
                      s[j] = sep /\ \A k \in 1..(j - 1) : s[k] # sep
         IN  <<SubSeq(s, 1, i - 1)>> \o split(SubSeq(s, i + 1, Len(s)), sep, maxsplit - 1)

\* sep.join(parts)
RECURSIVE join(_, _)
join(sep, parts) ==
    IF parts = <<>> THEN <<>>
    ELSE IF Len(parts) = 1 THEN parts[1]
    ELSE parts[1] \o sep \o join(sep, Tail(parts))

\* Faulty variant: a line with fewer than 3 tabs before any row starts a row.
RECURSIVE merge_lines_keep(_, _)
merge_lines_keep(lines, rows) ==
    IF lines = <<>> THEN rows
    ELSE LET line == Head(lines) IN
         merge_lines_keep(Tail(lines),
            IF count(line, TAB) >= 3
            THEN Append(rows, line)
            ELSE IF rows # <<>>
            THEN [rows EXCEPT ![Len(rows)] = @ \o <<"\n">> \o line]
            ELSE <<line>>)

\* parse_faq_tsv, pass 1 (lines 59-64): the rows after the lines `lines`, given
\* the rows so far.
RECURSIVE merge_lines(_, _)
merge_lines(lines, rows) ==
    IF lines = <<>> THEN rows
    ELSE LET line == Head(lines) IN
         merge_lines(Tail(lines),
            IF count(line, TAB) >= 3
            THEN Append(rows, line)
            ELSE IF rows # <<>>
            THEN [rows EXCEPT ![Len(rows)] = @ \o <<"\n">> \o line]
            ELSE rows)

\* The label of the synonym line, "(также: " in the source, transliterated.
SynonymsLabel == <<"(", "t", "a", "k", "z", "h", "e", ":", " ">>

\* Faulty variant: a row without a main question is skipped, `if not main_q`.
parse_row_needs_question(row) ==
    LET cols == split(row, TAB, 3) IN
    IF Len(cols) < 4
    THEN [cols |-> cols, main_q |-> <<>>, syn2 |-> <<>>, syn3 |-> <<>>,
          answer |-> <<>>, emitted |-> FALSE, block |-> <<>>]
    ELSE LET main_q == strip(cols[1])
             syn2 == strip(cols[2])
             syn3 == strip(cols[3])
             answer == strip_chars(strip(cols[4]), {QUOTE})
             question == IF main_q # <<>> THEN <<"Q", ":", " ">> \o main_q ELSE <<>>
             synonyms == SelectSeq(<<syn2, syn3>>, LAMBDA x : x # <<>>)
             also == IF synonyms # <<>>
                     THEN <<"\n">> \o SynonymsLabel \o join(<<";", " ">>, synonyms) \o <<")">>
                     ELSE <<>>
         IN  [cols |-> cols, main_q |-> main_q, syn2 |-> syn2, syn3 |-> syn3,
              answer |-> answer,
              emitted |-> main_q # <<>>,
              block |-> question \o also \o <<"\n", "A", ":", " ">> \o answer]

\* parse_faq_tsv, lines 69-82, for one row: the locals of the loop body, whether
\* the body reaches entries.append and the block it appends.
parse_row(row) ==
    LET cols == split(row, TAB, 3) IN
    IF Len(cols) < 4
    THEN [cols |-> cols, main_q |-> <<>>, syn2 |-> <<>>, syn3 |-> <<>>,
          answer |-> <<>>, emitted |-> FALSE, block |-> <<>>]
    ELSE LET main_q == strip(cols[1])
             syn2 == strip(cols[2])
             syn3 == strip(cols[3])
             answer == strip_chars(strip(cols[4]), {QUOTE})
             question == IF main_q # <<>> THEN <<"Q", ":", " ">> \o main_q ELSE <<>>
             synonyms == SelectSeq(<<syn2, syn3>>, LAMBDA x : x # <<>>)
             also == IF synonyms # <<>>
                     THEN <<"\n">> \o SynonymsLabel \o join(<<";", " ">>, synonyms) \o <<")">>
                     ELSE <<>>
         IN  [cols |-> cols, main_q |-> main_q, syn2 |-> syn2, syn3 |-> syn3,
              answer |-> answer,
              emitted |-> ~(main_q = <<>> /\ answer = <<>>),
              block |-> question \o also \o <<"\n", "A", ":", " ">> \o answer]

\* parse_faq_tsv, pass 2 (lines 67-83): the blocks of the rows, in order.
RECURSIVE parse_rows(_)
parse_rows(rows) ==
    IF rows = <<>> THEN <<>>
    ELSE LET r == parse_row(Head(rows)) IN
         (IF r.emitted THEN <<r.block>> ELSE <<>>) \o parse_rows(Tail(rows))

\* parse_faq_tsv(raw), whole
parse_faq_tsv(raw) ==
    LET raw_lines == splitlines(raw) IN
    IF raw_lines = <<>> THEN raw
    ELSE join(<<"\n", "\n">>, parse_rows(merge_lines(Tail(raw_lines), <<>>)))

\* parse_faq_tsv called with raw, before its first statement
FaqCall(raw) ==
    [pc |-> "splitlines", raw |-> raw, raw_lines |-> <<>>, rows |-> <<>>,
     entries |-> <<>>, text |-> <<>>]

\* line 54-56: raw.splitlines(); an empty document is returned as it is
faq_splitlines ==
    /\ faq.pc = "splitlines"
    /\ LET raw_lines == splitlines(faq.raw) IN
       faq' = IF raw_lines = <<>>
              THEN [faq EXCEPT !.pc = "done", !.text = faq.raw]
              ELSE [faq EXCEPT !.pc = "merge", !.raw_lines = raw_lines]
    /\ UNCHANGED <<sessions, lists, uuids, known, th, before, irregular, cleared>>

\* lines 59-64: pass 1
faq_merge ==
    /\ faq.pc = "merge"
    /\ faq' = [faq EXCEPT !.pc = "parse", !.rows = merge_lines(Tail(faq.raw_lines), <<>>)]
    /\ UNCHANGED <<sessions, lists, uuids, known, th, before, irregular, cleared>>

\* lines 67-83: pass 2
faq_parse ==
    /\ faq.pc = "parse"
    /\ faq' = [faq EXCEPT !.pc = "join", !.entries = parse_rows(faq.rows)]
    /\ UNCHANGED <<sessions, lists, uuids, known, th, before, irregular, cleared>>

\* line 84: "\n\n".join(entries)
faq_join ==
    /\ faq.pc = "join"
    /\ faq' = [faq EXCEPT !.pc = "done", !.text = join(<<"\n", "\n">>, faq.entries)]
    /\ UNCHANGED <<sessions, lists, uuids, known, th, before, irregular, cleared>>

\* The files the server of the model is started with: faq.txt and
\* system_prompt.txt as load_text_file returns them.
FaqDocument ==
    <<"h", TAB, "h", TAB, "h", TAB, "h", "\n", "q", TAB, TAB, TAB, "a">>

system_prompt_text == <<"S">>

\* line 89: faq_text, once parse_faq_tsv has returned
faq_text == faq.text

\* ------------------------------------------------------------ provider
\* What the provider call of chat_completion can come back with.
ProviderResponses ==
    { [raised |-> "Timeout",         status_code |-> 0,   body |-> "none",       content |-> <<>>],
      [raised |-> "ConnectionError", status_code |-> 0,   body |-> "none",       content |-> <<>>],
      [raised |-> "none",            status_code |-> 500, body |-> "text",       content |-> <<>>],
      [raised |-> "none",            status_code |-> 200, body |-> "not_json",   content |-> <<>>],
      [raised |-> "none",            status_code |-> 200, body |-> "no_choices", content |-> <<>>],
      [raised |-> "none",            status_code |-> 200, body |-> "no_content", content |-> <<>>],
      [raised |-> "none",            status_code |-> 200, body |-> "null",       content |-> <<>>],
      [raised |-> "none",            status_code |-> 200, body |-> "ok",         content |-> <<>>],
      [raised |-> "none",            status_code |-> 200, body |-> "ok",         content |-> <<"o", "k">>] }

OkResponse(r) ==
    r.raised = "none" /\ r.status_code = 200 /\ r.body = "ok" /\ r.content # <<>>

\* lines 91-94
SYSTEM_MESSAGE ==
    [role |-> "system", content |-> system_prompt_text \o <<"\n", "\n">> \o faq_text]

\* ------------------------------------------------------------ store
\* The values uuid4 generates, in the order it generates them.  Two calls never
\* return the same value, and no client sends one it has not been told (128
\* random bits: spec section 4.3).
UuidPool == <<"uuid-1", "uuid-2", "uuid-3", "uuid-4", "uuid-5", "uuid-6">>

\* str(uuid.uuid4()), after n earlier calls
uuid4(n) == UuidPool[n + 1]

\* bool(session_id) of an optional string: None and "" are falsy
Truthy(session_id) == session_id.present /\ session_id.value # ""

\* The store as one value: the dict, the list objects, the uuid4 calls made.
Store == [sessions |-> sessions, lists |-> lists, uuids |-> uuids]

\* The history of session k: the contents of the list object the store holds.
HistoryOf(k) == lists[sessions[k]]

\* Faulty variant: a known identifier gets a copy of its list, list(sessions[id]).
get_or_create_session_copy(st, session_id) ==
    IF Truthy(session_id) /\ session_id.value \in DOMAIN st.sessions
    THEN [sid |-> session_id.value, history |-> Len(st.lists) + 1,
          store |-> [st EXCEPT !.lists =
                        Append(st.lists, st.lists[st.sessions[session_id.value]])]]
    ELSE LET new_id == uuid4(st.uuids)
             addr == Len(st.lists) + 1
         IN  [sid |-> new_id, history |-> addr,
              store |-> [sessions |-> [k \in DOMAIN st.sessions \cup {new_id} |->
                                          IF k = new_id THEN addr ELSE st.sessions[k]],
                         lists |-> Append(st.lists, <<>>),
                         uuids |-> st.uuids + 1]]

\* Faulty variant: an unknown identifier the client sent is adopted as the new one.
get_or_create_session_adopt(st, session_id) ==
    IF Truthy(session_id) /\ session_id.value \in DOMAIN st.sessions
    THEN [sid |-> session_id.value, history |-> st.sessions[session_id.value],
          store |-> st]
    ELSE LET new_id == IF Truthy(session_id) THEN session_id.value
                       ELSE uuid4(st.uuids)
             addr == Len(st.lists) + 1
         IN  [sid |-> new_id, history |-> addr,
              store |-> [sessions |-> [k \in DOMAIN st.sessions \cup {new_id} |->
                                          IF k = new_id THEN addr ELSE st.sessions[k]],
                         lists |-> Append(st.lists, <<>>),
                         uuids |-> IF Truthy(session_id) THEN st.uuids
                                   ELSE st.uuids + 1]]

\* get_or_create_session(session_id) on the store st: the pair it returns
\* (sid, history: the list object, not its contents) and the store it leaves.
get_or_create_session(st, session_id) ==
    IF Truthy(session_id) /\ session_id.value \in DOMAIN st.sessions
    THEN [sid |-> session_id.value, history |-> st.sessions[session_id.value],
          store |-> st]
    ELSE LET new_id == uuid4(st.uuids)
             addr == Len(st.lists) + 1
         IN  [sid |-> new_id, history |-> addr,
              store |-> [sessions |-> [k \in DOMAIN st.sessions \cup {new_id} |->
                                          IF k = new_id THEN addr ELSE st.sessions[k]],
                         lists |-> Append(st.lists, <<>>),
                         uuids |-> st.uuids + 1]]

\* ------------------------------------------------------------ gateway
\* Faulty variant: the system message is put last, history + [SYSTEM_MESSAGE].
BuildMessages_system_last(history) == history \o <<SYSTEM_MESSAGE>>

\* chat_completion, line 127: the message list sent to the provider.
BuildMessages(history) == <<SYSTEM_MESSAGE>> \o history

\* Faulty variant: chat_completion without the check of lines 142-143.
chat_completion_unchecked(r) ==
    IF r.raised # "none"
    THEN [raised |-> r.raised, value |-> "transport failure"]
    ELSE IF r.status_code # 200
    THEN [raised |-> "RuntimeError", value |-> "API {status}: {detail}"]
    ELSE IF r.body = "not_json"
    THEN [raised |-> "JSONDecodeError", value |-> "not JSON"]
    ELSE IF r.body = "no_choices"
    THEN [raised |-> "KeyError", value |-> "choices"]
    ELSE [raised |-> "none", value |-> IF r.body = "ok" THEN r.content ELSE <<>>]

\* chat_completion, lines 128-144, when the provider answers r: either the text
\* it returns (raised = "none") or the class and text of the exception that
\* leaves it.
chat_completion(r) ==
    IF r.raised # "none"
    THEN [raised |-> r.raised, value |-> "transport failure"]
    ELSE IF r.status_code # 200
    THEN [raised |-> "RuntimeError", value |-> "API {status}: {detail}"]
    ELSE IF r.body = "not_json"
    THEN [raised |-> "JSONDecodeError", value |-> "not JSON"]
    ELSE IF r.body = "no_choices"
    THEN [raised |-> "KeyError", value |-> "choices"]
    ELSE LET content == IF r.body = "ok" THEN r.content ELSE <<>> IN
         IF content = <<>>
         THEN [raised |-> "RuntimeError", value |-> "Model returned empty content"]
         ELSE [raised |-> "none", value |-> content]

\* isinstance(exc, RuntimeError): requests' Timeout and ConnectionError are
\* OSErrors, JSONDecodeError is a ValueError, KeyError is a LookupError.
IsRuntimeError(raised) == raised = "RuntimeError"

\* ------------------------------------------------------------ responses
NoResp ==
    [status |-> 0, session_id |-> "", reply |-> <<>>, message_count |-> 0,
     error |-> "", ok |-> FALSE]

\* jsonify({"error": ...}), status
RespError(status, error) == [NoResp EXCEPT !.status = status, !.error = error]

\* jsonify({"session_id": sid})
RespStart(sid) == [NoResp EXCEPT !.status = 200, !.session_id = sid]

\* jsonify({"session_id": sid, "reply": reply, "message_count": n})
RespAsk(sid, reply, n) ==
    [NoResp EXCEPT !.status = 200, !.session_id = sid, !.reply = reply,
                   !.message_count = n]

\* jsonify({"status": "ok", "session_id": session_id})
RespReset(sid) == [NoResp EXCEPT !.status = 200, !.session_id = sid, !.ok = TRUE]

\* Flask's answer to an exception no handler caught
RespUnhandled(raised) == RespError(500, raised)

\* ------------------------------------------------------------ threads
\* A thread that handles no request.
Idle ==
    [ pc |-> "idle", op |-> "none",
      message |-> <<>>,            \* body.get("message", "").strip()
      sid |-> "", history |-> 0,   \* what get_or_create_session returned
      messages |-> <<>>,           \* chat_completion's local list, while it runs
      reply |-> <<>>,
      resp |-> NoResp ]            \* the handler's return value

Busy(t) == th[t].pc # "idle"
AllIdle == \A t \in Threads : ~Busy(t)

\* A request reaches the first free thread.
CanStart(t) ==
    /\ ~Busy(t)
    /\ \A u \in Threads : u < t => Busy(u)
    /\ AllIdle \/ irregular < MaxIrregular

\* History variable: what the history held when the handler got it, kept
\* while no other request on the same list has overlapped this one.
NoBefore == [alone |-> FALSE, history |-> <<>>]

\* Thread u is handling a request on the list object a.
Holds(u, a) == Busy(u) /\ a # 0 /\ th[u].history = a

\* Thread t starts a request whose handler gets the list object a (0: none),
\* holding h.
Started(t, a, h) ==
    /\ irregular' = IF AllIdle THEN irregular ELSE irregular + 1
    /\ before' = [u \in Threads |->
                    IF u = t
                    THEN IF \E v \in Threads \ {t} : Holds(v, a)
                         THEN NoBefore
                         ELSE [alone |-> TRUE, history |-> h]
                    ELSE IF Holds(u, a) THEN NoBefore ELSE before[u]]

Init ==
    /\ sessions = <<>>
    /\ lists = <<>>
    /\ uuids = 0
    /\ known = {}
    /\ th = [t \in Threads |-> Idle]
    /\ before = [t \in Threads |-> NoBefore]
    /\ irregular = 0
    /\ cleared = {}
    /\ faq = [FaqCall(FaqDocument) EXCEPT !.pc = "done",
                                         !.text = parse_faq_tsv(FaqDocument)]

\* ------------------------------------------------------------ /session/start
\* session_start(): one step.
session_start(t) ==
    /\ CanStart(t)
    /\ LET g == get_or_create_session(Store, Absent("")) IN
       /\ Cardinality(DOMAIN g.store.sessions) <= MaxSessions
       /\ Started(t, g.history, <<>>)
       /\ sessions' = g.store.sessions
       /\ lists' = g.store.lists
       /\ uuids' = g.store.uuids
       /\ th' = [th EXCEPT ![t] = [Idle EXCEPT !.pc = "done", !.op = "start",
                                               !.sid = g.sid, !.history = g.history,
                                               !.resp = RespStart(g.sid)]]
    /\ UNCHANGED <<known, cleared, faq>>

\* ------------------------------------------------------------ /session/reset
\* Faulty variant: a known session is removed from the store, sessions.pop(session_id).
session_reset_pop(t, hdr) ==
    /\ CanStart(t)
    /\ IF ~Truthy(hdr) \/ hdr.value \notin DOMAIN sessions
       THEN /\ Started(t, 0, <<>>)
            /\ th' = [th EXCEPT ![t] = [Idle EXCEPT !.pc = "done", !.op = "reset",
                         !.resp = RespError(400, "invalid or missing session_id")]]
            /\ UNCHANGED <<sessions, lists, cleared>>
       ELSE /\ Started(t, sessions[hdr.value], lists[sessions[hdr.value]])
            /\ sessions' = [k \in DOMAIN sessions \ {hdr.value} |-> sessions[k]]
            /\ lists' = [lists EXCEPT ![sessions[hdr.value]] = <<>>]
            /\ cleared' = cleared \cup {sessions[hdr.value]}
            /\ th' = [th EXCEPT ![t] = [Idle EXCEPT !.pc = "done", !.op = "reset",
                         !.sid = hdr.value, !.history = sessions[hdr.value],
                         !.resp = RespReset(hdr.value)]]
    /\ UNCHANGED <<uuids, known, faq>>

\* Faulty variant: the reset empties every history of the store.
session_reset_all(t, hdr) ==
    /\ CanStart(t)
    /\ IF ~Truthy(hdr) \/ hdr.value \notin DOMAIN sessions
       THEN /\ Started(t, 0, <<>>)
            /\ th' = [th EXCEPT ![t] = [Idle EXCEPT !.pc = "done", !.op = "reset",
                         !.resp = RespError(400, "invalid or missing session_id")]]
            /\ UNCHANGED <<lists, cleared>>
       ELSE /\ Started(t, sessions[hdr.value], lists[sessions[hdr.value]])
            /\ lists' = [a \in DOMAIN lists |-> <<>>]
            /\ cleared' = cleared \cup {sessions[hdr.value]}
            /\ th' = [th EXCEPT ![t] = [Idle EXCEPT !.pc = "done", !.op = "reset",
                         !.sid = hdr.value, !.history = sessions[hdr.value],
                         !.resp = RespReset(hdr.value)]]
    /\ UNCHANGED <<sessions, uuids, known, faq>>

\* Faulty variant: the reset keeps the oldest message, del history[1:].
session_reset_keep_first(t, hdr) ==
    /\ CanStart(t)
    /\ IF ~Truthy(hdr) \/ hdr.value \notin DOMAIN sessions
       THEN /\ Started(t, 0, <<>>)
            /\ th' = [th EXCEPT ![t] = [Idle EXCEPT !.pc = "done", !.op = "reset",
                         !.resp = RespError(400, "invalid or missing session_id")]]
            /\ UNCHANGED <<lists, cleared>>
       ELSE /\ Started(t, sessions[hdr.value], lists[sessions[hdr.value]])
            /\ lists' = [lists EXCEPT ![sessions[hdr.value]] =
                            IF @ = <<>> THEN <<>> ELSE <<@[1]>>]
            /\ cleared' = cleared \cup {sessions[hdr.value]}
            /\ th' = [th EXCEPT ![t] = [Idle EXCEPT !.pc = "done", !.op = "reset",
                         !.sid = hdr.value, !.history = sessions[hdr.value],
                         !.resp = RespReset(hdr.value)]]
    /\ UNCHANGED <<sessions, uuids, known, faq>>

\* session_reset(): one step; list.clear() empties the list object in place.
session_reset(t, hdr) ==
    /\ CanStart(t)
    /\ IF ~Truthy(hdr) \/ hdr.value \notin DOMAIN sessions
       THEN /\ Started(t, 0, <<>>)
            /\ th' = [th EXCEPT ![t] = [Idle EXCEPT !.pc = "done", !.op = "reset",
                         !.resp = RespError(400, "invalid or missing session_id")]]
            /\ UNCHANGED <<lists, cleared>>
       ELSE /\ Started(t, sessions[hdr.value], lists[sessions[hdr.value]])
            /\ lists' = [lists EXCEPT ![sessions[hdr.value]] = <<>>]
            /\ cleared' = cleared \cup {sessions[hdr.value]}
            /\ th' = [th EXCEPT ![t] = [Idle EXCEPT !.pc = "done", !.op = "reset",
                         !.sid = hdr.value, !.history = sessions[hdr.value],
                         !.resp = RespReset(hdr.value)]]
    /\ UNCHANGED <<sessions, uuids, known, faq>>

\* ------------------------------------------------------------ /ask
\* Faulty variant: the session is fetched before the message is validated.
ask_begin_create_first(t, hdr, body) ==
    /\ CanStart(t)
    /\ LET message == strip(IF body.present THEN body.value ELSE <<>>)
           g == get_or_create_session(Store, hdr)
       IN  /\ Cardinality(DOMAIN g.store.sessions) <= MaxSessions
           /\ sessions' = g.store.sessions
           /\ lists' = g.store.lists
           /\ uuids' = g.store.uuids
           /\ IF message = <<>>
              THEN /\ Started(t, 0, <<>>)
                   /\ th' = [th EXCEPT ![t] = [Idle EXCEPT !.pc = "done", !.op = "ask",
                                !.resp = RespError(400, "missing 'message' field")]]
              ELSE /\ Started(t, g.history, g.store.lists[g.history])
                   /\ th' = [th EXCEPT ![t] = [Idle EXCEPT !.pc = "append", !.op = "ask",
                                !.message = message,
                                !.sid = g.sid, !.history = g.history]]
    /\ UNCHANGED <<known, cleared, faq>>

\* ask(), lines 161-167: read the request, refuse an empty message, else get
\* the session.
ask_begin(t, hdr, body) ==
    /\ CanStart(t)
    /\ LET message == strip(IF body.present THEN body.value ELSE <<>>) IN
       IF message = <<>>
       THEN /\ Started(t, 0, <<>>)
            /\ th' = [th EXCEPT ![t] = [Idle EXCEPT !.pc = "done", !.op = "ask",
                         !.resp = RespError(400, "missing 'message' field")]]
            /\ UNCHANGED <<sessions, lists, uuids>>
       ELSE LET g == get_or_create_session(Store, hdr) IN
            /\ Cardinality(DOMAIN g.store.sessions) <= MaxSessions
            /\ Started(t, g.history, g.store.lists[g.history])
            /\ sessions' = g.store.sessions
            /\ lists' = g.store.lists
            /\ uuids' = g.store.uuids
            /\ th' = [th EXCEPT ![t] = [Idle EXCEPT !.pc = "append", !.op = "ask",
                         !.message = message,
                         !.sid = g.sid, !.history = g.history]]
    /\ UNCHANGED <<known, cleared, faq>>

\* line 169: history.append({"role": "user", "content": message})
ask_append_user(t) ==
    /\ th[t].pc = "append"
    /\ lists' = [lists EXCEPT ![th[t].history] =
                    Append(@, [role |-> "user", content |-> th[t].message])]
    /\ th' = [th EXCEPT ![t].pc = "trim"]
    /\ UNCHANGED <<sessions, uuids, known, before, irregular, cleared, faq>>

\* Faulty variant: the loop runs down to three below the limit,
\* len(history) > MAX_MESSAGES - 3.
ask_trim_test_early(t) ==
    /\ th[t].pc = "trim"
    /\ th' = [th EXCEPT ![t].pc =
                 IF Len(lists[th[t].history]) > MAX_MESSAGES - 3
                 THEN "pop_user" ELSE "call"]
    /\ UNCHANGED <<sessions, lists, uuids, known, before, irregular, cleared, faq>>

\* Faulty variant: the loop test is off by one, len(history) > MAX_MESSAGES + 1.
ask_trim_test_late(t) ==
    /\ th[t].pc = "trim"
    /\ th' = [th EXCEPT ![t].pc =
                 IF Len(lists[th[t].history]) > MAX_MESSAGES + 1
                 THEN "pop_user" ELSE "call"]
    /\ UNCHANGED <<sessions, lists, uuids, known, before, irregular, cleared, faq>>

\* line 172: while len(history) > MAX_MESSAGES
ask_trim_test(t) ==
    /\ th[t].pc = "trim"
    /\ th' = [th EXCEPT ![t].pc =
                 IF Len(lists[th[t].history]) > MAX_MESSAGES THEN "pop_user" ELSE "call"]
    /\ UNCHANGED <<sessions, lists, uuids, known, before, irregular, cleared, faq>>

\* Faulty variant: the newest message is removed, history.pop().
ListPopLast(t, next) ==
    IF lists[th[t].history] = <<>>
    THEN /\ th' = [th EXCEPT ![t].pc = "done", ![t].resp = RespUnhandled("IndexError")]
         /\ UNCHANGED lists
    ELSE /\ lists' = [lists EXCEPT ![th[t].history] = SubSeq(@, 1, Len(@) - 1)]
         /\ th' = [th EXCEPT ![t].pc = next]

\* history.pop(0): IndexError on an empty list
ListPop0(t, next) ==
    IF lists[th[t].history] = <<>>
    THEN /\ th' = [th EXCEPT ![t].pc = "done", ![t].resp = RespUnhandled("IndexError")]
         /\ UNCHANGED lists
    ELSE /\ lists' = [lists EXCEPT ![th[t].history] = Tail(@)]
         /\ th' = [th EXCEPT ![t].pc = next]

\* line 173: history.pop(0)  # user
ask_pop_user(t) ==
    /\ th[t].pc = "pop_user"
    /\ ListPop0(t, "test")
    /\ UNCHANGED <<sessions, uuids, known, before, irregular, cleared, faq>>

\* line 174, left operand: if history
ask_test_nonempty(t) ==
    /\ th[t].pc = "test"
    /\ th' = [th EXCEPT ![t].pc = IF lists[th[t].history] # <<>> THEN "role" ELSE "trim"]
    /\ UNCHANGED <<sessions, lists, uuids, known, before, irregular, cleared, faq>>

\* Faulty variant: the second pop is made when the oldest message is a user's.
ask_test_role_user(t) ==
    /\ th[t].pc = "role"
    /\ th' = IF lists[th[t].history] = <<>>
             THEN [th EXCEPT ![t].pc = "done", ![t].resp = RespUnhandled("IndexError")]
             ELSE [th EXCEPT ![t].pc =
                      IF lists[th[t].history][1].role = "user"
                      THEN "pop_assistant" ELSE "trim"]
    /\ UNCHANGED <<sessions, lists, uuids, known, before, irregular, cleared, faq>>

\* line 174, right operand: history[0]["role"] == "assistant"
ask_test_role(t) ==
    /\ th[t].pc = "role"
    /\ th' = IF lists[th[t].history] = <<>>
             THEN [th EXCEPT ![t].pc = "done", ![t].resp = RespUnhandled("IndexError")]
             ELSE [th EXCEPT ![t].pc =
                      IF lists[th[t].history][1].role = "assistant"
                      THEN "pop_assistant" ELSE "trim"]
    /\ UNCHANGED <<sessions, lists, uuids, known, before, irregular, cleared, faq>>

\* line 175: history.pop(0)  # assistant
ask_pop_assistant(t) ==
    /\ th[t].pc = "pop_assistant"
    /\ ListPop0(t, "trim")
    /\ UNCHANGED <<sessions, uuids, known, before, irregular, cleared, faq>>

\* lines 178 and 127: chat_completion(history) builds the message list and
\* sends it; the thread then waits for the provider.
ask_call(t) ==
    /\ th[t].pc = "call"
    /\ th' = [th EXCEPT ![t].pc = "wait",
                        ![t].messages = BuildMessages(lists[th[t].history])]
    /\ UNCHANGED <<sessions, lists, uuids, known, before, irregular, cleared, faq>>

\* lines 128-144 and 177-180: the provider answers r; chat_completion returns
\* or raises, and ask catches RuntimeError only.
ask_gateway_return(t, r) ==
    /\ th[t].pc = "wait"
    /\ OkResponse(r) \/ irregular < MaxIrregular
    /\ irregular' = IF OkResponse(r) THEN irregular ELSE irregular + 1
    /\ LET res == chat_completion(r) IN
       th' = IF res.raised = "none"
             THEN [th EXCEPT ![t].pc = "append_reply", ![t].messages = <<>>,
                             ![t].reply = res.value]
             ELSE IF IsRuntimeError(res.raised)
             THEN [th EXCEPT ![t].pc = "done", ![t].messages = <<>>,
                             ![t].resp = RespError(502, res.value)]
             ELSE [th EXCEPT ![t].pc = "done", ![t].messages = <<>>,
                             ![t].resp = RespUnhandled(res.raised)]
    /\ UNCHANGED <<sessions, lists, uuids, known, before, cleared, faq>>

\* line 182: history.append({"role": "assistant", "content": reply})
ask_append_reply(t) ==
    /\ th[t].pc = "append_reply"
    /\ lists' = [lists EXCEPT ![th[t].history] =
                    Append(@, [role |-> "assistant", content |-> th[t].reply])]
    /\ th' = [th EXCEPT ![t].pc = "count"]
    /\ UNCHANGED <<sessions, uuids, known, before, irregular, cleared, faq>>

\* lines 184-188: the answer, with len(history) as it is now
ask_return(t) ==
    /\ th[t].pc = "count"
    /\ th' = [th EXCEPT ![t].pc = "done",
                        ![t].resp = RespAsk(th[t].sid, th[t].reply,
                                            Len(lists[th[t].history]))]
    /\ UNCHANGED <<sessions, lists, uuids, known, before, irregular, cleared, faq>>

\* ------------------------------------------------------------ server
\* The response reaches the client, which learns the identifier in it; the
\* thread is free again.
Respond(t) ==
    /\ th[t].pc = "done"
    /\ known' = IF th[t].resp.session_id # ""
                THEN known \cup {th[t].resp.session_id} ELSE known
    /\ th' = [th EXCEPT ![t] = Idle]
    /\ before' = [before EXCEPT ![t] = NoBefore]
    /\ cleared' = IF th[t].op = "ask" THEN cleared \ {th[t].history} ELSE cleared
    /\ UNCHANGED <<sessions, lists, uuids, irregular, faq>>

\* A request arrives.
Request(t) ==
    \/ session_start(t)
    \/ \E hdr \in Headers : session_reset(t, hdr)
    \/ \E hdr \in Headers, body \in Bodies : ask_begin(t, hdr, body)

\* A handler that is running takes its next step.
Step(t) ==
    \/ ask_append_user(t)
    \/ ask_trim_test(t)
    \/ ask_pop_user(t)
    \/ ask_test_nonempty(t)
    \/ ask_test_role(t)
    \/ ask_pop_assistant(t)
    \/ ask_call(t)
    \/ \E r \in ProviderResponses : ask_gateway_return(t, r)
    \/ ask_append_reply(t)
    \/ ask_return(t)
    \/ Respond(t)

\* Threaded server: requests overlap.
Next == \E t \in Threads : Request(t) \/ Step(t)

Spec == Init /\ [][Next]_vars

\* A request arrives when no other request is being handled.
RequestSeq(t) ==
    \/ AllIdle /\ session_start(t)
    \/ AllIdle /\ \E hdr \in Headers : session_reset(t, hdr)
    \/ AllIdle /\ \E hdr \in Headers, body \in Bodies : ask_begin(t, hdr, body)

\* Requests handled one at a time.
NextSeq == \E t \in Threads : RequestSeq(t) \/ Step(t)

SpecSeq == Init /\ [][NextSeq]_vars

\* ------------------------------------------------------------ startup
\* The physical lines FAQ documents are made of.
FaqLines ==
    { <<"q", TAB, "s", TAB, TAB, "a", TAB, "b">>,          \* a row: one synonym, a tab in the answer
      <<"q", TAB, TAB, TAB>>,                              \* a question without answer
      <<TAB, TAB, TAB>>,                                   \* a blank row
      <<TAB, "s", TAB, "s", TAB, " ">>,                    \* synonyms only
      <<TAB, TAB, TAB, QUOTE, QUOTE, "a", QUOTE, QUOTE>>,  \* answer in two layers of quotes
      <<" ", "q", " ", TAB, TAB, TAB, " ", QUOTE, "a">>,   \* a quoted answer begins
      <<"c", TAB, "d", QUOTE>>,                            \* and ends on a later line
      <<>> }                                               \* an empty line

\* The documents of at most n lines, with line end sep.
DocumentsOf(n, sep) ==
    { join(sep, ls) : ls \in UNION { [1..k -> FaqLines] : k \in 0..n } }

\* The documents parse_faq_tsv is called with: lines ending in "\n" or, one
\* line shorter, in "\r\n".
FaqDocuments ==
    DocumentsOf(MaxLines, <<"\n">>) \cup DocumentsOf(MaxLines - 1, <<"\r", "\n">>)

\* The process before parse_faq_tsv is called: no request is served yet.
InitFaq ==
    /\ sessions = <<>>
    /\ lists = <<>>
    /\ uuids = 0
    /\ known = {}
    /\ th = [t \in Threads |-> Idle]
    /\ before = [t \in Threads |-> NoBefore]
    /\ irregular = 0
    /\ cleared = {}
    /\ \E raw \in FaqDocuments : faq = FaqCall(raw)

NextFaq == faq_splitlines \/ faq_merge \/ faq_parse \/ faq_join

\* parse_faq_tsv on any document
SpecFaq == InitFaq /\ [][NextFaq]_vars

\* ============================================================ claims
Role(h, i) == h[i].role
UserMessage(text) == [role |-> "user", content |-> text]

\* C1: every session's history holds at most MAX_MESSAGES messages, in every
\* reachable state.
C1_HistoryWithinLimit ==
    \A k \in DOMAIN sessions : Len(HistoryOf(k)) <= MAX_MESSAGES

\* C2: when /ask answers 502, the session's history is what the handler found
\* when the request came in.  (With requests handled one at a time `before`
\* is kept for every request.)
C2_FailedAskLeavesHistory ==
    \A t \in Threads :
        (th[t].pc = "done" /\ th[t].op = "ask" /\ th[t].resp.status = 502
            /\ before[t].alone)
        => lists[th[t].history] = before[t].history

\* Thread t is inside the append-user .. append-reply section of ask: it has
\* appended its user message and not yet appended its reply or given up.
InsideAsk(t) ==
    th[t].pc \in {"trim", "pop_user", "test", "role", "pop_assistant", "call",
                  "wait", "append_reply"}

\* Two asks on one history have both answered 200.
BothAnswered(t, u) ==
    /\ t # u
    /\ th[t].pc = "done" /\ th[t].op = "ask" /\ th[t].resp.status = 200
    /\ th[u].pc = "done" /\ th[u].op = "ask" /\ th[u].resp.status = 200
    /\ th[t].history = th[u].history

\* The last four messages of h are user, assistant, user, assistant.
EndsWithTwoTurns(h) ==
    /\ Len(h) >= 4
    /\ Role(h, Len(h) - 3) = "user" /\ Role(h, Len(h) - 2) = "assistant"
    /\ Role(h, Len(h) - 1) = "user" /\ Role(h, Len(h)) = "assistant"

\* C3: two /ask requests on one session exclude each other: never both inside
\* the append-user .. append-reply section, and when both have answered the
\* history ends as it does after handling them one after the other.
C3_AskMutualExclusion ==
    \A t, u \in Threads :
        /\ (t # u /\ InsideAsk(t) /\ InsideAsk(u)) => th[t].history # th[u].history
        /\ BothAnswered(t, u) => EndsWithTwoTurns(lists[th[t].history])

\* C4: what an /ask hands to the gateway, when no other request on its session
\* has overlapped it, is the system message followed by the history as it is
\* now, at most MAX_MESSAGES long, ending with the user message of this request.
C4_GatewayGetsTrimmedHistory ==
    \A t \in Threads :
        (th[t].pc = "wait" /\ before[t].alone) =>
            LET h == Tail(th[t].messages) IN
            /\ h = lists[th[t].history]
            /\ Len(h) <= MAX_MESSAGES
            /\ Len(h) >= 1
            /\ h[Len(h)] = UserMessage(th[t].message)

\* C4 witness: such a request found a history of MAX_MESSAGES + 1 messages, so
\* the trim has removed messages before the call.
C4_Witness ==
    \E t \in Threads :
        /\ th[t].pc = "wait" /\ before[t].alone
        /\ Len(before[t].history) = MAX_MESSAGES + 1
        /\ Len(th[t].messages) - 1 < Len(before[t].history) + 1

\* C5: a non-empty history never begins with an assistant message.
C5_NeverStartsWithAssistant ==
    \A k \in DOMAIN sessions :
        HistoryOf(k) # <<>> => Role(HistoryOf(k), 1) # "assistant"

\* C6: every upstream failure ends the request with a 502.
C6_UpstreamFailureIs502 ==
    [][ \A t \in Threads, r \in ProviderResponses :
            (~OkResponse(r) /\ ask_gateway_return(t, r))
            => (th'[t].pc = "done" /\ th'[t].resp.status = 502) ]_vars

\* A 200 response of the provider whose reply text is empty or absent.
EmptyReply(r) ==
    /\ r.raised = "none" /\ r.status_code = 200
    /\ r.body \in {"ok", "no_content", "null"} /\ r.content = <<>>

\* C7: a 200 provider response with an empty or absent reply text makes /ask
\* answer 502 and append nothing; no /ask answers 200 with an empty reply and
\* no history holds an empty assistant message.
C7_EmptyReplyIsFailure ==
    /\ [][ \A t \in Threads, r \in ProviderResponses :
              (EmptyReply(r) /\ ask_gateway_return(t, r))
              => /\ th'[t].pc = "done"
                 /\ th'[t].resp.status = 502
                 /\ lists' = lists ]_vars
    /\ [](\A t \in Threads :
              (th[t].op = "ask" /\ th[t].resp.status = 200) => th[t].resp.reply # <<>>)
    /\ [](\A a \in DOMAIN lists : \A i \in DOMAIN lists[a] :
              lists[a][i].role = "assistant" => lists[a][i].content # <<>>)

\* C7 witness: an /ask has answered 502 for an empty reply.
C7_Witness ==
    \E t \in Threads :
        /\ th[t].pc = "done" /\ th[t].op = "ask"
        /\ th[t].resp = RespError(502, "Model returned empty content")
        /\ lists[th[t].history] # <<>>

\* A header that names a session of the store.
NamesSession(hdr) == Truthy(hdr) /\ hdr.value \in DOMAIN sessions

\* C8: get_or_create with an identifier of the store returns that identifier
\* and the stored list object itself, leaves the store as it is, and returns
\* the same again when called again; the history an /ask works on is the
\* stored one.
C8_GetKnownReturnsStored ==
    /\ \A k \in DOMAIN sessions :
          LET g1 == get_or_create_session(Store, Present(k))
              g2 == get_or_create_session(g1.store, Present(k))
          IN  /\ g1.sid = k
              /\ g1.history = sessions[k]
              /\ g1.store = Store
              /\ g2 = g1
    /\ \A t \in Threads :
          (th[t].op = "ask" /\ th[t].history # 0) =>
              /\ th[t].sid \in DOMAIN sessions
              /\ sessions[th[t].sid] = th[t].history

\* C8 witness: an /ask has got the session of an identifier a client knew,
\* with the messages it already held.
C8_Witness ==
    \E t \in Threads :
        /\ th[t].pc = "append" /\ th[t].sid \in known
        /\ lists[th[t].history] # <<>>

\* The call g of get_or_create created a session in the store st: one more
\* session, under an identifier st did not hold, with an empty history, and
\* every session of st as it was.
CreatedIn(st, g) ==
    /\ g.sid \notin DOMAIN st.sessions
    /\ DOMAIN g.store.sessions = DOMAIN st.sessions \cup {g.sid}
    /\ g.history = g.store.sessions[g.sid]
    /\ g.store.lists[g.history] = <<>>
    /\ \A k \in DOMAIN st.sessions :
          /\ g.store.sessions[k] = st.sessions[k]
          /\ g.store.lists[st.sessions[k]] = st.lists[st.sessions[k]]

\* C9: get_or_create with an absent, empty or unknown identifier adds exactly
\* one session with an empty history under a new identifier that is not the
\* one the client sent, and changes no other session; a further call gives yet
\* another identifier, and the store holds one session per call; /session/start
\* and /ask with such an identifier do exactly that.
C9_CreateIsFresh ==
    /\ [](/\ Cardinality(DOMAIN sessions) = uuids
          /\ \A hdr \in Headers : ~NamesSession(hdr) =>
                LET g1 == get_or_create_session(Store, hdr)
                    g2 == get_or_create_session(g1.store, hdr)
                IN  /\ CreatedIn(Store, g1)
                    /\ g1.sid # hdr.value
                    /\ CreatedIn(g1.store, g2)
                    /\ g2.sid # g1.sid)
    /\ [][ \A t \in Threads :
              /\ (th[t].pc = "idle" /\ th'[t].op = "start") =>
                    /\ session_start(t)
                    /\ th'[t].sid \notin DOMAIN sessions
                    /\ th'[t].resp.session_id = th'[t].sid
                    /\ CreatedIn(Store, [sid |-> th'[t].sid, history |-> th'[t].history,
                                         store |-> Store'])
              /\ (th[t].pc = "idle" /\ th'[t].pc = "append") =>
                    \A hdr \in Headers, body \in Bodies :
                        (ask_begin(t, hdr, body) /\ ~NamesSession(hdr)) =>
                            /\ th'[t].sid # hdr.value
                            /\ CreatedIn(Store, [sid |-> th'[t].sid,
                                                 history |-> th'[t].history,
                                                 store |-> Store']) ]_vars

\* C9 witness: an /ask has created a second session, beside one that holds
\* messages.
C9_Witness ==
    \E t \in Threads :
        /\ th[t].pc = "append" /\ th[t].sid \notin known
        /\ lists[th[t].history] = <<>>
        /\ \E k \in DOMAIN sessions : k # th[t].sid /\ HistoryOf(k) # <<>>

\* C10: /session/reset with an identifier of the store empties that history in
\* place, keeps the store's identifiers and every other history, and answers
\* ok; with any other identifier it answers 400 and leaves the store as it is.
C10_ResetClearsOrRefuses ==
    [][ \A t \in Threads :
            (th[t].pc = "idle" /\ th'[t].op = "reset") =>
                \A hdr \in Headers :
                    session_reset(t, hdr) =>
                        IF NamesSession(hdr)
                        THEN /\ DOMAIN sessions' = DOMAIN sessions
                             /\ sessions' = sessions
                             /\ lists'[sessions'[hdr.value]] = <<>>
                             /\ \A k \in DOMAIN sessions \ {hdr.value} :
                                   lists'[sessions'[k]] = lists[sessions[k]]
                             /\ th'[t].resp = RespReset(hdr.value)
                        ELSE /\ th'[t].resp.status = 400
                             /\ Store' = Store ]_vars

\* C10 witness: a reset has emptied a history that held messages.
C10_Witness ==
    \E t \in Threads :
        /\ th[t].pc = "done" /\ th[t].op = "reset" /\ th[t].resp.ok
        /\ before[t].alone /\ before[t].history # <<>>
        /\ lists[th[t].history] = <<>>

\* The "message" field of body is missing, empty or whitespace only.
NoMessage(body) == strip(IF body.present THEN body.value ELSE <<>>) = <<>>

\* C11: /ask with a missing, empty or whitespace-only message answers 400
\* "missing 'message' field" and ends there, whatever the X-Session-Id header:
\* the store (identifiers, histories, uuid4 calls) is as it was, and the
\* handler holds no history and has built no message list for the gateway.
C11_NoMessageIs400 ==
    /\ [][ \A t \in Threads :
              (th[t].pc = "idle" /\ th'[t].op = "ask") =>
                  \A hdr \in Headers, body \in Bodies :
                      (NoMessage(body) /\ ask_begin(t, hdr, body)) =>
                          /\ th'[t].pc = "done"
                          /\ th'[t].resp = RespError(400, "missing 'message' field")
                          /\ th'[t].history = 0
                          /\ th'[t].messages = <<>>
                          /\ Store' = Store ]_vars
    /\ [](\A t \in Threads :
              (th[t].op = "ask" /\ th[t].resp.status = 400) =>
                  th[t].pc = "done" /\ th[t].history = 0)

\* C11 witness: an /ask has answered 400 while the store holds a session with
\* messages and a client can send identifiers of both kinds.
C11_Witness ==
    \E t \in Threads :
        /\ th[t].pc = "done" /\ th[t].op = "ask" /\ th[t].resp.status = 400
        /\ \E k \in DOMAIN sessions : k \in known /\ HistoryOf(k) # <<>>

AssistantMessage(text) == [role |-> "assistant", content |-> text]

\* Thread t has finished a successful /ask that no other request on its session
\* overlapped.
AskedAlone(t) ==
    /\ th[t].pc = "done" /\ th[t].op = "ask" /\ th[t].resp.status = 200
    /\ before[t].alone

\* The answer and the history of a first /ask on a session.
FirstExchange(t) ==
    /\ th[t].resp.session_id = th[t].sid
    /\ sessions[th[t].sid] = th[t].history
    /\ th[t].resp.message_count = 2
    /\ lists[th[t].history] =
          <<UserMessage(th[t].message), AssistantMessage(th[t].resp.reply)>>

\* C12: the first successful /ask on a session after a successful
\* /session/reset of it, with no other request on the session overlapping,
\* found the history empty, answers with that session's identifier and
\* message_count 2 and leaves exactly its user message and the reply in the
\* history; so does every /ask that found an empty history, as on a session
\* just started.
C12_AskAfterResetStartsEmpty ==
    \A t \in Threads :
        /\ (AskedAlone(t) /\ th[t].history \in cleared) =>
              before[t].history = <<>> /\ FirstExchange(t)
        /\ (AskedAlone(t) /\ before[t].history = <<>>) => FirstExchange(t)

\* C12 witness: an /ask has answered on a session whose earlier messages a
\* reset had removed, beside another session that still holds messages.
C12_Witness ==
    \E t \in Threads :
        /\ AskedAlone(t) /\ th[t].history \in cleared
        /\ th[t].sid \in known
        /\ \E k \in DOMAIN sessions : k # th[t].sid /\ HistoryOf(k) # <<>>

\* C13: every gateway call sends the system message followed by the session's
\* history as it is at the call, in order, and nothing else; neither sending
\* the list nor the provider's answer coming back changes the store; the first
\* element of every list in flight is the one SYSTEM_MESSAGE, which no step
\* changes, and no list sent holds a second message of role system.
C13_GatewayMessageList ==
    /\ [][ \A t \in Threads :
              /\ ask_call(t) =>
                    /\ th'[t].messages = <<SYSTEM_MESSAGE>> \o HistoryOf(th[t].sid)
                    /\ Store' = Store
              /\ (th[t].pc = "wait" /\ th'[t].pc # "wait") =>
                    \A r \in ProviderResponses :
                        ask_gateway_return(t, r) => Store' = Store ]_vars
    /\ [](\A t \in Threads :
              th[t].pc = "wait" =>
                  /\ Len(th[t].messages) >= 1
                  /\ Head(th[t].messages) = SYSTEM_MESSAGE
                  /\ \A i \in 2..Len(th[t].messages) :
                        th[t].messages[i].role \in {"user", "assistant"})
    /\ [](\A u \in Threads : th[u].pc # "wait" => th[u].messages = <<>>)
    /\ [][SYSTEM_MESSAGE' = SYSTEM_MESSAGE]_vars

\* C13 witness: two gateway calls of different sessions are in flight, one of
\* them with a history of several messages.
C13_Witness ==
    \E t, u \in Threads :
        /\ th[t].pc = "wait" /\ th[u].pc = "wait" /\ th[t].sid # th[u].sid
        /\ Len(th[t].messages) > 3
        /\ Head(th[t].messages) = Head(th[u].messages)

\* s ends with suffix.
EndsWith(s, suffix) ==
    /\ Len(s) >= Len(suffix)
    /\ SubSeq(s, Len(s) - Len(suffix) + 1, Len(s)) = suffix

StartsWith(s, prefix) ==
    Len(s) >= Len(prefix) /\ SubSeq(s, 1, Len(prefix)) = prefix

\* pass 2 has run: faq.entries holds the blocks.
FaqParsed == faq.pc = "join"

\* The rows whose block pass 2 appended, in order.
EmittedRows == SelectSeq(faq.rows, LAMBDA row : parse_row(row).emitted)

\* s without one leading and without one trailing quote character, each if
\* present.
OneQuoteLayerOff(s) ==
    LET a == IF s # <<>> /\ Head(s) = QUOTE THEN Tail(s) ELSE s
    IN  IF a # <<>> /\ a[Len(a)] = QUOTE THEN SubSeq(a, 1, Len(a) - 1) ELSE a

\* C14: for every row that gets a block, the answer, and the text of the
\* block's answer line, is the fourth field trimmed and then without at most
\* one leading and at most one trailing quote character.
C14_AnswerLosesOneQuoteLayer ==
    FaqParsed =>
        /\ Len(faq.entries) = Len(EmittedRows)
        /\ \A i \in DOMAIN EmittedRows :
              LET r == parse_row(EmittedRows[i])
                  expected == OneQuoteLayerOff(strip(r.cols[4]))
              IN  /\ r.answer = expected
                  /\ EndsWith(faq.entries[i], <<"\n", "A", ":", " ">> \o expected)

\* The physical lines after the first.
LaterLines == Tail(faq.raw_lines)

\* The positions in LaterLines of the lines with at least 3 tab characters.
RowStarts == {i \in DOMAIN LaterLines : count(LaterLines[i], TAB) >= 3}

\* The last line of the row that starts at position i: the one before the
\* next row start, or the last line.
RowEnd(i) ==
    IF \E j \in RowStarts : j > i
    THEN (CHOOSE j \in RowStarts : j > i /\ \A k \in RowStarts : k > i => j <= k) - 1
    ELSE Len(LaterLines)

\* The number of the row that starts at position i.
RowNumber(i) == Cardinality({j \in RowStarts : j <= i})

\* C15: the rows of pass 1 are, in order, one per later line with at least 3
\* tabs, each that line followed by the lines up to the next such line, joined
\* with newlines (so the first line never counts, and lines before the first
\* row are dropped); a row splits into four fields, the first three those of
\* its first line and free of tabs, the fourth the rest of that line and the
\* joined lines; the blocks are those of the rows in row order, and the
\* output is the blocks joined by a blank line.
C15_RowsFromLines ==
    /\ faq.pc \in {"parse", "join"} =>
          /\ Len(faq.rows) = Cardinality(RowStarts)
          /\ \A i \in RowStarts :
                LET row == faq.rows[RowNumber(i)]
                    cols == parse_row(row).cols
                    first == split(LaterLines[i], TAB, 3)
                IN  /\ row = join(<<"\n">>, SubSeq(LaterLines, i, RowEnd(i)))
                    /\ Len(cols) = 4
                    /\ join(<<TAB>>, cols) = row
                    /\ \A c \in 1..3 : cols[c] = first[c] /\ count(cols[c], TAB) = 0
                    /\ cols[4] = join(<<"\n">>, <<first[4]>> \o
                                        SubSeq(LaterLines, i + 1, RowEnd(i)))
    /\ faq.pc = "join" =>
          /\ Len(faq.entries) = Len(EmittedRows)
          /\ \A i \in DOMAIN EmittedRows :
                faq.entries[i] = parse_row(EmittedRows[i]).block
    /\ faq.pc = "done" =>
          /\ faq.text = join(<<"\n", "\n">>, faq.entries)
          /\ faq.text = parse_faq_tsv(faq.raw)

\* C15 witness: a document whose first line has 3 tabs, followed by a line
\* that is dropped, a row and a line joined to that row.
C15_Witness ==
    /\ faq.pc = "join"
    /\ Len(faq.raw_lines) = 4
    /\ count(faq.raw_lines[1], TAB) >= 3
    /\ RowStarts = {2}
    /\ Len(faq.entries) = 1
    /\ count(faq.rows[1], "\n") = 1
    /\ LaterLines[1] # <<>>

\* The row's main question and answer as lines 72 and 75 compute them, and
\* whether one of them is non-empty.
MainQuestion(row) == strip(split(row, TAB, 3)[1])
Answer(row) == strip_chars(strip(split(row, TAB, 3)[4]), {QUOTE})
HasQuestionOrAnswer(row) == MainQuestion(row) # <<>> \/ Answer(row) # <<>>

IsSuffix(s, h) ==
    Len(s) <= Len(h) /\ SubSeq(h, Len(h) - Len(s) + 1, Len(h)) = s

\* h alternates user, assistant, user, ... from a user message on.
Alternates(h) ==
    \A i \in DOMAIN h : h[i].role = IF i % 2 = 1 THEN "user" ELSE "assistant"

\* The history of thread t's /ask before the trim step: what the handler found
\* and its user message.
Untrimmed(t) == Append(before[t].history, UserMessage(th[t].message))

\* Thread t's /ask is in the trim step or past it, with the gateway call ahead
\* or in flight.
Trimming(t) == th[t].pc \in {"trim", "pop_user", "test", "role", "pop_assistant"}
Trimmed(t) == th[t].pc \in {"call", "wait"}

\* C17: in an /ask that no other request on its session overlaps, the history
\* during and after the trim step is a suffix of the untrimmed one; when the
\* untrimmed history alternates user, assistant, ... from a user message on,
\* the step has removed an even number of messages (whole user, assistant
\* pairs) and the trimmed history alternates the same way.
C17_TrimRemovesOldestPairs ==
    \A t \in Threads :
        /\ ((Trimming(t) \/ Trimmed(t)) /\ before[t].alone) =>
              IsSuffix(lists[th[t].history], Untrimmed(t))
        /\ (Trimmed(t) /\ before[t].alone /\ Alternates(Untrimmed(t))) =>
              /\ (Len(Untrimmed(t)) - Len(lists[th[t].history])) % 2 = 0
              /\ Alternates(lists[th[t].history])

\* C17 witness: the trim step has removed messages from an alternating history.
C17_Witness ==
    \E t \in Threads :
        /\ Trimmed(t) /\ before[t].alone /\ Alternates(Untrimmed(t))
        /\ Len(lists[th[t].history]) < Len(Untrimmed(t))

\* No handler is at work: every thread is idle or has its response ready.
BetweenRequests == \A t \in Threads : th[t].pc \in {"idle", "done"}

\* C18: with requests handled one at a time, between requests every non-empty
\* history begins with a user message and holds no two assistant messages in
\* a row.
C18_UserFirstNoTwoAssistants ==
    BetweenRequests =>
        \A k \in DOMAIN sessions :
            LET h == HistoryOf(k) IN
            /\ h # <<>> => Role(h, 1) = "user"
            /\ \A i \in 1..(Len(h) - 1) :
                  ~(Role(h, i) = "assistant" /\ Role(h, i + 1) = "assistant")

\* C18 witness: a history that has been trimmed after a failed gateway call
\* left two user messages in a row.
C18_Witness ==
    /\ BetweenRequests
    /\ \E k \in DOMAIN sessions :
          LET h == HistoryOf(k) IN
          /\ Len(h) >= MAX_MESSAGES
          /\ \E i \in 1..(Len(h) - 1) : Role(h, i) = "user" /\ Role(h, i + 1) = "user"

\* C19: no step removes an identifier from the store or binds it to another
\* list, no two identifiers share a list, and a step of an /ask or a
\* /session/reset changes no history but the one of the session it got.
C19_OtherSessionsUntouched ==
    /\ [][ /\ DOMAIN sessions \subseteq DOMAIN sessions'
           /\ \A k \in DOMAIN sessions : sessions'[k] = sessions[k]
           /\ \A t \in Threads :
                 th'[t] # th[t] =>
                     \A k \in DOMAIN sessions :
                         sessions[k] # th'[t].history =>
                             lists'[sessions[k]] = lists[sessions[k]] ]_vars
    /\ [](\A k1, k2 \in DOMAIN sessions : sessions[k1] = sessions[k2] => k1 = k2)

\* C19 witness: a reset has emptied one session while another holds messages.
C19_Witness ==
    \E t \in Threads :
        /\ th[t].pc = "done" /\ th[t].op = "reset" /\ th[t].resp.ok
        /\ before[t].alone /\ before[t].history # <<>>
        /\ \E k \in DOMAIN sessions : k # th[t].sid /\ HistoryOf(k) # <<>>

\* C20: with requests handled one at a time, between requests no history holds
\* more than MAX_MESSAGES + 1 messages, and when the trim step of an /ask has
\* removed a message the trimmed history holds at least MAX_MESSAGES - 1 and at
\* most MAX_MESSAGES messages.
C20_TrimBounds ==
    /\ BetweenRequests =>
          \A k \in DOMAIN sessions : Len(HistoryOf(k)) <= MAX_MESSAGES + 1
    /\ \A t \in Threads :
          (Trimmed(t) /\ Len(lists[th[t].history]) < Len(Untrimmed(t))) =>
              /\ Len(lists[th[t].history]) >= MAX_MESSAGES - 1
              /\ Len(lists[th[t].history]) <= MAX_MESSAGES

\* C20 witness: the trim step has left MAX_MESSAGES - 1 messages.
C20_Witness ==
    \E t \in Threads :
        /\ Trimmed(t)
        /\ Len(Untrimmed(t)) > MAX_MESSAGES
        /\ Len(lists[th[t].history]) = MAX_MESSAGES - 1

====
